---- MODULE Spec2Model ----
(***************************************************************************)
(* Model of homework.py: the fitness-tracker module with the Training      *)
(* hierarchy (Running, SportsWalking, Swimming), the read_package factory, *)
(* main and the __main__ driver loop.                                      *)
(*                                                                         *)
(* Numbers: Python evaluates the formulas in binary floating point.  The   *)
(* model evaluates them in exact rational arithmetic, a rational being a   *)
(* pair <<n, d>> in lowest terms with d > 0.  Every arithmetic operator of *)
(* the source is applied in the source's order; what the model leaves out  *)
(* is the rounding of each float operation (relative error 2^-53), which   *)
(* is far below the 3 decimals the report displays.                        *)
(***************************************************************************)
EXTENDS Integers, Sequences, FiniteSets, TLC

VARIABLES
    classAttrs,   \* class name -> the class attributes set in its body
    packages,     \* the driver's list of (code, data) records
    idx,          \* 1-based position of the for loop in packages
    pc,           \* driver position: "loop", "main", "done", "crashed", "api"
    training,     \* the driver's variable training
    stdout,       \* the lines printed so far
    exc,          \* the exception that ended the driver's run, or NoExc
    objs,         \* instances built by direct constructor calls
    results       \* per instance, the last result of each method called on it

vars == <<classAttrs, packages, idx, pc, training, stdout, exc, objs, results>>

----------------------------------------------------------------------------
(* Bounds of the model. *)

MaxPackages == 2
NumObjs == 2
MaxCalls == 2
MaxDuration == 2

----------------------------------------------------------------------------
(* Exact rational arithmetic standing for Python's float operators. *)

\* The operators below are defined through functions: a function application
\* evaluates its arguments once, where an operator application evaluates an
\* argument expression again at every use of the parameter.

Abs(n) == IF n < 0 THEN -n ELSE n

gcd[a \in Nat, b \in Nat] == IF b = 0 THEN a ELSE gcd[b, a % b]
GCD(a, b) == gcd[a, b]

rat[n \in Int, d \in Int] ==
    LET g == gcd[Abs(n), Abs(d)]
        s == IF d < 0 THEN -1 ELSE 1
    IN  <<(s * n) \div g, (s * d) \div g>>

\* n / d in lowest terms, the denominator positive
Rat(n, d) == rat[n, d]

ToR(i) == <<i, 1>>
Zero == ToR(0)

Rationals == Int \X Int

radd[a \in Rationals, b \in Rationals] ==
    rat[a[1] * b[2] + b[1] * a[2], a[2] * b[2]]
RAdd(a, b) == radd[a, b]

rsub[a \in Rationals, b \in Rationals] ==
    rat[a[1] * b[2] - b[1] * a[2], a[2] * b[2]]
RSub(a, b) == rsub[a, b]

\* cross-reduced product, so that intermediate integers stay small
rmul[a \in Rationals, b \in Rationals] ==
    LET x == rat[a[1], b[2]]
        y == rat[b[1], a[2]]
    IN  <<x[1] * y[1], x[2] * y[2]>>
RMul(a, b) == rmul[a, b]

rdiv[a \in Rationals, b \in Rationals] == rmul[a, rat[b[2], b[1]]]
RDiv(a, b) == rdiv[a, b]

rfloor[a \in Rationals] == ToR(a[1] \div a[2])
RFloor(a) == rfloor[a]

RSquare(a) == RMul(a, a)

rless[a \in Rationals, b \in Rationals] == a[1] * b[2] < b[1] * a[2]
RLess(a, b) == rless[a, b]

riszero[a \in Rationals] == a[1] = 0
RIsZero(a) == riszero[a]

----------------------------------------------------------------------------
(* Outcome of a call: a returned value or a raised exception. *)

Ok(v) == [exc |-> "none", val |-> v]
Raise(kind, name) == [exc |-> kind, name |-> name]
NoExc == [exc |-> "none"]
NotCalled == [exc |-> "notcalled"]
None == [cls |-> "NoneType"]

\* sequencing: an exception raised by r propagates, else F gets r's value
Then(r, F(_)) == IF r.exc # "none" THEN r ELSE F(r.val)

\* a / b on floats: ZeroDivisionError when b is zero
TrueDiv(a, b) ==
    IF RIsZero(b) THEN Raise("ZeroDivisionError", "division by zero")
    ELSE Ok(RDiv(a, b))

\* a // b on floats: floor of the quotient, ZeroDivisionError when b is zero
FloorDiv(a, b) ==
    IF RIsZero(b) THEN Raise("ZeroDivisionError", "division by zero")
    ELSE Ok(RFloor(RDiv(a, b)))

----------------------------------------------------------------------------
(* Class attributes. *)

M_IN_KM == 1000
H_IN_M == 60
LEN_STEP == Rat(65, 100)
coeff_run_1 == 18
coeff_run_2 == 20
coeff_weight_1 == Rat(35, 1000)
coeff_weight_2 == Rat(29, 1000)
Swimming_LEN_STEP == Rat(138, 100)
coeff_swim_1 == Rat(11, 10)
coeff_swim_2 == 2

ClassBodies ==
    [Training      |-> [M_IN_KM |-> ToR(M_IN_KM), LEN_STEP |-> LEN_STEP,
                        H_IN_M |-> ToR(H_IN_M)],
     Running       |-> [LEN_STEP |-> LEN_STEP,
                        coeff_run_1 |-> ToR(coeff_run_1),
                        coeff_run_2 |-> ToR(coeff_run_2)],
     SportsWalking |-> [LEN_STEP |-> LEN_STEP,
                        coeff_weight_1 |-> coeff_weight_1,
                        coeff_weight_2 |-> coeff_weight_2],
     Swimming      |-> [LEN_STEP |-> Swimming_LEN_STEP,
                        coeff_swim_1 |-> coeff_swim_1,
                        coeff_swim_2 |-> ToR(coeff_swim_2)]]

Classes == {"Training", "Running", "SportsWalking", "Swimming"}

\* self.<name> for a class attribute: the instance's class first, then its base
Attr(self, name) ==
    IF name \in DOMAIN classAttrs[self.cls]
    THEN classAttrs[self.cls][name]
    ELSE classAttrs["Training"][name]

----------------------------------------------------------------------------
(* Constructors. *)

Training_init(cls, action, duration, weight) ==
    [cls |-> cls, action |-> action, duration |-> duration, weight |-> weight]

SportsWalking_init(action, duration, weight, height) ==
    Training_init("SportsWalking", action, duration, weight)
        @@ [height |-> height]

Swimming_init(action, duration, weight, length_pool, count_pool) ==
    Training_init("Swimming", action, duration, weight)
        @@ [length_pool |-> length_pool, count_pool |-> count_pool]

Arity(cls) ==
    CASE cls = "Swimming" -> 5
      [] cls = "SportsWalking" -> 4
      [] OTHER -> 3

\* cls(*data): TypeError unless the list has exactly the constructor's arity
Construct(cls, data) ==
    IF Len(data) # Arity(cls)
    THEN Raise("TypeError", cls)
    ELSE CASE cls = "Swimming" ->
                Ok(Swimming_init(data[1], data[2], data[3], data[4], data[5]))
           [] cls = "SportsWalking" ->
                Ok(SportsWalking_init(data[1], data[2], data[3], data[4]))
           [] OTHER ->
                Ok(Training_init(cls, data[1], data[2], data[3]))

----------------------------------------------------------------------------
(* Methods.  Each takes the instance and returns Ok(value) or Raise(...). *)

Training_get_distance(self) ==
    TrueDiv(RMul(ToR(self.action), Attr(self, "LEN_STEP")),
            Attr(self, "M_IN_KM"))

get_distance(self) == Training_get_distance(self)

Training_get_mean_speed(self) ==
    Then(get_distance(self),
         LAMBDA dist : TrueDiv(dist, ToR(self.duration)))

\* the override left out: the inherited formula
Swimming_get_mean_speed_Mut(self) == Training_get_mean_speed(self)

Swimming_get_mean_speed(self) ==
    Then(TrueDiv(RMul(ToR(self.length_pool), ToR(self.count_pool)),
                 Attr(self, "M_IN_KM")),
         LAMBDA a : TrueDiv(a, ToR(self.duration)))

get_mean_speed(self) ==
    IF self.cls = "Swimming" THEN Swimming_get_mean_speed(self)
    ELSE Training_get_mean_speed(self)

Training_get_spent_calories_Mut(self) == Ok(Zero)

Training_get_spent_calories(self) ==
    Raise("NotImplementedError", self.cls)

\* time = self.duration * self.H_IN_M
Minutes(self) == RMul(ToR(self.duration), Attr(self, "H_IN_M"))

\* the two coefficients exchanged
Running_get_spent_calories_Mut(self) ==
    Then(get_mean_speed(self), LAMBDA speed :
    Then(TrueDiv(RMul(RSub(RMul(Attr(self, "coeff_run_2"), speed),
                           Attr(self, "coeff_run_1")),
                      ToR(self.weight)),
                 Attr(self, "M_IN_KM")), LAMBDA b :
    Ok(RMul(b, Minutes(self)))))

Running_get_spent_calories(self) ==
    Then(get_mean_speed(self), LAMBDA speed :
    Then(TrueDiv(RMul(RSub(RMul(Attr(self, "coeff_run_1"), speed),
                           Attr(self, "coeff_run_2")),
                      ToR(self.weight)),
                 Attr(self, "M_IN_KM")), LAMBDA b :
    Ok(RMul(b, Minutes(self)))))

\* / in place of //
SportsWalking_get_spent_calories_RealDiv(self) ==
    Then(get_mean_speed(self), LAMBDA speed :
    Then(TrueDiv(RSquare(speed), ToR(self.height)), LAMBDA q :
    Ok(RMul(RAdd(RMul(Attr(self, "coeff_weight_1"), ToR(self.weight)),
                 RMul(RMul(q, Attr(self, "coeff_weight_2")),
                      ToR(self.weight))),
            Minutes(self)))))

\* - in place of +
SportsWalking_get_spent_calories_Minus(self) ==
    Then(get_mean_speed(self), LAMBDA speed :
    Then(FloorDiv(RSquare(speed), ToR(self.height)), LAMBDA q :
    Ok(RMul(RSub(RMul(Attr(self, "coeff_weight_1"), ToR(self.weight)),
                 RMul(RMul(q, Attr(self, "coeff_weight_2")),
                      ToR(self.weight))),
            Minutes(self)))))

SportsWalking_get_spent_calories(self) ==
    Then(get_mean_speed(self), LAMBDA speed :
    Then(FloorDiv(RSquare(speed), ToR(self.height)), LAMBDA q :
    Ok(RMul(RAdd(RMul(Attr(self, "coeff_weight_1"), ToR(self.weight)),
                 RMul(RMul(q, Attr(self, "coeff_weight_2")),
                      ToR(self.weight))),
            Minutes(self)))))

Swimming_get_spent_calories(self) ==
    Then(get_mean_speed(self), LAMBDA speed :
    Ok(RMul(RMul(RAdd(speed, Attr(self, "coeff_swim_1")),
                 Attr(self, "coeff_swim_2")),
            ToR(self.weight))))

get_spent_calories(self) ==
    CASE self.cls = "Running" -> Running_get_spent_calories(self)
      [] self.cls = "SportsWalking" -> SportsWalking_get_spent_calories(self)
      [] self.cls = "Swimming" -> Swimming_get_spent_calories(self)
      [] OTHER -> Training_get_spent_calories(self)

InfoMessage(training_type, duration, distance, speed, calories) ==
    [training_type |-> training_type, duration |-> duration,
     distance |-> distance, speed |-> speed, calories |-> calories]

\* the arguments of InfoMessage are evaluated left to right
show_training_info(self) ==
    Then(get_distance(self), LAMBDA dist :
    Then(get_mean_speed(self), LAMBDA speed :
    Then(get_spent_calories(self), LAMBDA cal :
    Ok(InfoMessage(self.cls, self.duration, dist, speed, cal)))))

\* '{:.3f}': the value in thousandths, rounded to nearest, ties to even
Format3f(r) ==
    LET n == r[1] * 1000
        q == n \div r[2]
        twice == 2 * (n - q * r[2])
    IN  IF twice > r[2] \/ (twice = r[2] /\ q % 2 = 1) THEN q + 1 ELSE q

get_message(info) ==
    [kind |-> "report",
     training_type |-> info.training_type,
     duration |-> Format3f(ToR(info.duration)),
     distance |-> Format3f(info.distance),
     speed |-> Format3f(info.speed),
     calories |-> Format3f(info.calories)]

UnsupportedLine == [kind |-> "unsupported"]

----------------------------------------------------------------------------
(* read_package. *)

workout_table_Mut ==
    [SWM |-> "Swimming", RUN |-> "SportsWalking", WLK |-> "Running"]

workout_table ==
    [SWM |-> "Swimming", RUN |-> "Running", WLK |-> "SportsWalking"]

\* out: what the call prints; res: what it returns or raises
read_package(work_type, workout_data) ==
    IF work_type \in DOMAIN workout_table
    THEN [out |-> <<>>,
          res |-> Construct(workout_table[work_type], workout_data)]
    ELSE [out |-> <<UnsupportedLine>>,
          res |-> Raise("UnboundLocalError", "train_type")]

\* print(info.get_message()), or the exception show_training_info raised
PrintInfo(info) ==
    IF info.exc # "none" THEN [out |-> <<>>, res |-> info]
    ELSE [out |-> <<get_message(info.val)>>, res |-> Ok(None)]

main(workout) == PrintInfo(show_training_info(workout))

----------------------------------------------------------------------------
(* Inputs. *)

\* the list of the __main__ block
HardcodedPackages ==
    << <<"SWM", <<720, 1, 80, 25, 40>> >>,
       <<"RUN", <<15000, 1, 75>> >>,
       <<"WLK", <<9000, 1, 75, 180>> >> >>

HardcodedData == {HardcodedPackages[i][2] : i \in DOMAIN HardcodedPackages}

\* the three codes of the table and one that is not in it
Codes == {"SWM", "RUN", "WLK", "XYZ"}

\* the hardcoded argument lists, the running list with a zero duration and
\* the walking list with a zero height
DataLists ==
    HardcodedData
        \cup {[d EXCEPT ![2] = 0] : d \in {e \in HardcodedData : Len(e) = 3}}
        \cup {[d EXCEPT ![4] = 0] : d \in {e \in HardcodedData : Len(e) = 4}}

Records == Codes \X DataLists

BoundedSeq(S, n) == UNION {[1..k -> S] : k \in 0..n}

Actions == {0, 720, 9000, 15000}
Durations == 0..MaxDuration
Weights == {0, 75, 80}
Heights == {0, 10, 180}
PoolLengths == {0, 25}
PoolCounts == {0, 40}

\* every instance the constructors build from the value sets above
CalcInstances ==
    {Training_init(c, a, d, w) :
        c \in {"Training", "Running"}, a \in Actions, d \in Durations,
        w \in Weights}
    \cup {SportsWalking_init(a, d, w, h) :
        a \in Actions, d \in Durations, w \in Weights, h \in Heights}
    \cup {Swimming_init(a, d, w, l, c) :
        a \in Actions, d \in Durations, w \in Weights, l \in PoolLengths,
        c \in PoolCounts}

NoResults ==
    [get_distance |-> NotCalled, get_mean_speed |-> NotCalled,
     get_spent_calories |-> NotCalled, show_training_info |-> NotCalled]

Methods == DOMAIN NoResults

----------------------------------------------------------------------------
(* The __main__ block: for workout_type, data in packages: ... *)

Init ==
    /\ classAttrs = ClassBodies
    /\ \/ packages = HardcodedPackages
       \/ packages \in BoundedSeq(Records, MaxPackages)
    /\ idx = 1
    /\ pc = "loop"
    /\ training = None
    /\ stdout = <<>>
    /\ exc = NoExc
    /\ objs = <<>>
    /\ results = <<>>

\* training = read_package(workout_type, data)
ReadPackageCall ==
    /\ pc = "loop"
    /\ idx <= Len(packages)
    /\ LET r == read_package(packages[idx][1], packages[idx][2])
       IN  /\ stdout' = stdout \o r.out
           /\ IF r.res.exc = "none"
              THEN /\ training' = r.res.val
                   /\ pc' = "main"
                   /\ exc' = exc
              ELSE /\ training' = training
                   /\ pc' = "crashed"
                   /\ exc' = r.res
    /\ UNCHANGED <<classAttrs, packages, idx, objs, results>>

\* the line put in front of the output instead of after it
MainCall_Mut ==
    /\ pc = "main"
    /\ stdout' = main(training).out \o stdout
    /\ IF main(training).res.exc = "none"
       THEN /\ idx' = idx + 1
            /\ pc' = "loop"
            /\ exc' = exc
       ELSE /\ idx' = idx
            /\ pc' = "crashed"
            /\ exc' = main(training).res
    /\ UNCHANGED <<classAttrs, packages, training, objs, results>>

\* main(training)
MainCall ==
    /\ pc = "main"
    /\ stdout' = stdout \o main(training).out
    /\ IF main(training).res.exc = "none"
       THEN /\ idx' = idx + 1
            /\ pc' = "loop"
            /\ exc' = exc
       ELSE /\ idx' = idx
            /\ pc' = "crashed"
            /\ exc' = main(training).res
    /\ UNCHANGED <<classAttrs, packages, training, objs, results>>

\* the list is exhausted: the program ends
LoopExit ==
    /\ pc = "loop"
    /\ idx > Len(packages)
    /\ pc' = "done"
    /\ UNCHANGED <<classAttrs, packages, idx, training, stdout, exc, objs,
                   results>>

Next == ReadPackageCall \/ MainCall \/ LoopExit

Spec == Init /\ [][Next]_vars

\* an interpreter runs the next statement whenever there is one
FairSpec == Spec /\ WF_vars(Next)

----------------------------------------------------------------------------
(* Direct use of the classes: constructor and method calls on instances. *)

ApiInit ==
    /\ classAttrs = ClassBodies
    /\ packages = <<>>
    /\ idx = 1
    /\ pc = "api"
    /\ training = None
    /\ stdout = <<>>
    /\ exc = NoExc

ObjInit ==
    /\ ApiInit
    /\ objs = <<>>
    /\ results = <<>>

\* cls(*data)
New(cls, data) ==
    /\ pc = "api"
    /\ Len(objs) < NumObjs
    /\ LET r == Construct(cls, data)
       IN  IF r.exc = "none"
           THEN /\ objs' = Append(objs, r.val)
                /\ results' = Append(results, NoResults)
                /\ exc' = exc
           ELSE \* TypeError goes to the caller: nothing is built
                UNCHANGED <<objs, results, exc>>
    /\ UNCHANGED <<classAttrs, packages, idx, pc, training, stdout>>

\* the number of (instance, method) pairs called so far
CalledCount ==
    Cardinality({im \in (DOMAIN results) \X Methods :
                    results[im[1]][im[2]] # NotCalled})

\* objs[i].get_distance()
CallGetDistance(i) ==
    /\ pc = "api"
    /\ i \in DOMAIN objs
    /\ results' = [results EXCEPT ![i].get_distance = get_distance(objs[i])]
    /\ UNCHANGED <<classAttrs, packages, idx, pc, training, stdout, exc, objs>>

\* objs[i].get_mean_speed()
CallGetMeanSpeed(i) ==
    /\ pc = "api"
    /\ i \in DOMAIN objs
    /\ results' =
           [results EXCEPT ![i].get_mean_speed = get_mean_speed(objs[i])]
    /\ UNCHANGED <<classAttrs, packages, idx, pc, training, stdout, exc, objs>>

\* the method converting self.duration to minutes in place
CallGetSpentCalories_Mut(i) ==
    /\ pc = "api"
    /\ i \in DOMAIN objs
    /\ results' =
           [results EXCEPT
               ![i].get_spent_calories = get_spent_calories(objs[i])]
    /\ objs' = [objs EXCEPT ![i].duration = @ * H_IN_M]
    /\ UNCHANGED <<classAttrs, packages, idx, pc, training, stdout, exc>>

\* objs[i].get_spent_calories()
CallGetSpentCalories(i) ==
    /\ pc = "api"
    /\ i \in DOMAIN objs
    /\ results' =
           [results EXCEPT
               ![i].get_spent_calories = get_spent_calories(objs[i])]
    /\ UNCHANGED <<classAttrs, packages, idx, pc, training, stdout, exc, objs>>

\* objs[i].show_training_info()
CallShowTrainingInfo(i) ==
    /\ pc = "api"
    /\ i \in DOMAIN objs
    /\ results' =
           [results EXCEPT
               ![i].show_training_info = show_training_info(objs[i])]
    /\ UNCHANGED <<classAttrs, packages, idx, pc, training, stdout, exc, objs>>

ObjNext ==
    \/ \E cls \in Classes, data \in HardcodedData : New(cls, data)
    \/ CalledCount < MaxCalls /\ \E i \in 1..NumObjs : CallGetDistance(i)
    \/ CalledCount < MaxCalls /\ \E i \in 1..NumObjs : CallGetMeanSpeed(i)
    \/ CalledCount < MaxCalls /\ \E i \in 1..NumObjs : CallGetSpentCalories(i)
    \/ CalledCount < MaxCalls /\ \E i \in 1..NumObjs : CallShowTrainingInfo(i)

ObjSpec == ObjInit /\ [][ObjNext]_vars

\* one instance, drawn from the value sets, and the method calls on it
CalcInit ==
    /\ ApiInit
    /\ \E inst \in CalcInstances : objs = <<inst>>
    /\ results = <<NoResults>>

CalcNext ==
    \/ CallGetDistance(1)
    \/ CallGetMeanSpeed(1)
    \/ CallGetSpentCalories(1)
    \/ CallShowTrainingInfo(1)

CalcSpec == CalcInit /\ [][CalcNext]_vars

----------------------------------------------------------------------------
(* Vocabulary of the properties. *)

KnownCodes == {"SWM", "RUN", "WLK"}

ClassOfCode(code) ==
    CASE code = "SWM" -> "Swimming"
      [] code = "RUN" -> "Running"
      [] code = "WLK" -> "SportsWalking"

ArityOfCode(code) ==
    CASE code = "SWM" -> 5
      [] code = "RUN" -> 3
      [] code = "WLK" -> 4

\* the instance a record describes, its fields taken from the list by position
InstanceOf(code, data) ==
    CASE code = "SWM" ->
            [cls |-> "Swimming", action |-> data[1], duration |-> data[2],
             weight |-> data[3], length_pool |-> data[4],
             count_pool |-> data[5]]
      [] code = "RUN" ->
            [cls |-> "Running", action |-> data[1], duration |-> data[2],
             weight |-> data[3]]
      [] code = "WLK" ->
            [cls |-> "SportsWalking", action |-> data[1],
             duration |-> data[2], weight |-> data[3], height |-> data[4]]

WellFormed(rec) ==
    /\ rec[1] \in KnownCodes
    /\ Len(rec[2]) = ArityOfCode(rec[1])

\* recognized code, matching arity, duration > 0
ValidRecord(rec) == WellFormed(rec) /\ rec[2][2] > 0

\* ... and, for walking, a height that is not zero
ComputableRecord(rec) ==
    ValidRecord(rec) /\ (rec[1] = "WLK" => rec[2][4] # 0)

LineOf(rec) ==
    get_message(show_training_info(InstanceOf(rec[1], rec[2])).val)

IsNeg(r) == r[1] < 0

Called(i, m) == i \in DOMAIN results /\ results[i][m] # NotCalled

----------------------------------------------------------------------------
\* C1: for a record whose code is not SWM, RUN or WLK, read_package aborts
\* the record without building an instance, and the abort is never the
\* unbound-reference failure on train_type.
C1_UnknownCodeAbortsCleanly ==
    (idx \in DOMAIN packages /\ packages[idx][1] \notin KnownCodes)
        => /\ pc # "main"
           /\ exc.exc # "UnboundLocalError"

\* C2: a failure on one record ends that record only: when the run is over,
\* every record of the list that can be computed has had its report line
\* printed, whatever failed before it.
C2_FailureEndsOneRecordOnly ==
    pc \in {"done", "crashed"}
        => \A i \in DOMAIN packages :
              ComputableRecord(packages[i])
                  => \E j \in DOMAIN stdout : stdout[j] = LineOf(packages[i])

\* C3: for a known code and a list of the constructor's arity, read_package
\* returns an instance of the code's class whose fields are the list's
\* elements in order, and the report printed for it carries the class name.
C3_ReadPackageBuildsVariant ==
    /\ (idx \in DOMAIN packages /\ WellFormed(packages[idx]))
          => /\ pc = "main"
                  => training = InstanceOf(packages[idx][1], packages[idx][2])
             /\ pc = "crashed" => exc.exc = "ZeroDivisionError"
    /\ \A i \in 1..(idx - 1) :
          /\ i \in DOMAIN stdout
          /\ stdout[i].kind = "report"
          /\ stdout[i].training_type = ClassOfCode(packages[i][1])

C3_Witness ==
    /\ packages = HardcodedPackages
    /\ pc = "main"
    /\ idx = 3
    /\ training.cls = "SportsWalking"
    /\ Len(stdout) = 2

\* the state the driver is in after k records of a list without failures
DriverOnTrack ==
    /\ pc \in {"loop", "main", "done"}
    /\ idx \in 1..(Len(packages) + 1)
    /\ pc = "main" => idx <= Len(packages)
    /\ pc = "done" => idx = Len(packages) + 1
    /\ Len(stdout) = idx - 1
    /\ \A i \in DOMAIN stdout : stdout[i] = LineOf(packages[i])

\* C8 as stated: for every list of records with recognized codes, matching
\* arity and duration > 0 the driver prints one line per record, in order,
\* each before the next record is built, and ends.
C8_Original ==
    (\A i \in DOMAIN packages : ValidRecord(packages[i])) => DriverOnTrack

\* C8, amended: the same for every list whose walking records also have a
\* height that is not zero: at every moment the output is exactly the lines
\* of the records before idx, in list order (so a record's line is there
\* before the next record is built), the run ends with one line per record,
\* and no step is taken once it has ended.
C8_OneLinePerRecordInOrder ==
    /\ []((\A i \in DOMAIN packages : ComputableRecord(packages[i]))
            => DriverOnTrack)
    /\ <>((\A i \in DOMAIN packages : ComputableRecord(packages[i]))
            => (pc = "done" /\ Len(stdout) = Len(packages)))
    /\ [][pc # "done"]_vars

C8_Witness ==
    /\ packages = HardcodedPackages
    /\ pc = "done"
    /\ Len(stdout) = 3

----------------------------------------------------------------------------
\* C4 as stated: Running(15000, 1, 75) has distance 9.75, mean speed 9.75
\* and calories approximately 689.89.
C4_Original ==
    (objs[1] = Training_init("Running", 15000, 1, 75)
        /\ Called(1, "get_spent_calories"))
        => /\ results[1].get_spent_calories.exc = "none"
           /\ RLess(Rat(68988, 100), results[1].get_spent_calories.val)
           /\ RLess(results[1].get_spent_calories.val, Rat(68990, 100))

\* C4, amended: Running(15000, 1, 75) has distance 9.75, mean speed 9.75 and
\* calories (18 * 9.75 - 20) * 75 / 1000 * 60, which is exactly 699.75.
C4_RunningExample ==
    objs[1] = Training_init("Running", 15000, 1, 75)
        => /\ Called(1, "get_distance")
                => results[1].get_distance = Ok(Rat(975, 100))
           /\ Called(1, "get_mean_speed")
                => results[1].get_mean_speed = Ok(Rat(975, 100))
           /\ Called(1, "get_spent_calories")
                => results[1].get_spent_calories = Ok(Rat(69975, 100))

C4_Witness ==
    /\ objs[1] = Training_init("Running", 15000, 1, 75)
    /\ Called(1, "get_distance")
    /\ Called(1, "get_mean_speed")
    /\ Called(1, "get_spent_calories")

\* action * 0.65 / 1000 / duration
WalkSpeed(self) ==
    RDiv(RDiv(RMul(ToR(self.action), Rat(65, 100)), ToR(1000)),
         ToR(self.duration))

\* C5: for SportsWalking with duration > 0 and height > 0 the calories are
\* (0.035 * weight + floor(speed^2 / height) * 0.029 * weight)
\* * (duration * 60) with speed = action * 0.65 / 1000 / duration; the
\* second term is zero whenever speed^2 < height; and (9000, 1, 75, 180)
\* has distance 5.85 and mean speed 5.85.
C5_WalkingFloorDivision ==
    LET self == objs[1]
        ratio == RDiv(RSquare(WalkSpeed(self)), ToR(self.height))
        first == RMul(Rat(35, 1000), ToR(self.weight))
        second == RMul(RMul(RFloor(ratio), Rat(29, 1000)), ToR(self.weight))
        minutes == ToR(self.duration * 60)
    IN  (self.cls = "SportsWalking" /\ self.duration > 0 /\ self.height > 0)
        => /\ Called(1, "get_spent_calories")
                => /\ results[1].get_spent_calories
                        = Ok(RMul(RAdd(first, second), minutes))
                   /\ RLess(RSquare(WalkSpeed(self)), ToR(self.height))
                        => results[1].get_spent_calories
                             = Ok(RMul(first, minutes))
           /\ self = SportsWalking_init(9000, 1, 75, 180)
                => /\ Called(1, "get_distance")
                        => results[1].get_distance = Ok(Rat(585, 100))
                   /\ Called(1, "get_mean_speed")
                        => results[1].get_mean_speed = Ok(Rat(585, 100))

\* a walk whose speed^2 / height is 3.42: the floor is 3, not 0 and not 3.42
C5_Witness ==
    /\ objs[1] = SportsWalking_init(9000, 1, 75, 10)
    /\ results[1].get_spent_calories = Ok(ToR(549))

\* C6: for Swimming with duration > 0 the mean speed is
\* length_pool * count_pool / 1000 / duration and the calories are
\* (speed + 1.1) * 2 * weight; neither depends on action, and the calories
\* are not multiplied by the minutes; (720, 1, 80, 25, 40) has speed 1.0 and
\* calories 336.0.
C6_SwimmingFormulas ==
    LET self == objs[1]
        speed == Rat(self.length_pool * self.count_pool, 1000 * self.duration)
        cal == RMul(RMul(RAdd(speed, Rat(11, 10)), ToR(2)), ToR(self.weight))
    IN  (self.cls = "Swimming" /\ self.duration > 0)
        => /\ Called(1, "get_mean_speed")
                => /\ results[1].get_mean_speed = Ok(speed)
                   /\ \A a \in Actions :
                        get_mean_speed([self EXCEPT !.action = a])
                            = results[1].get_mean_speed
           /\ Called(1, "get_spent_calories")
                => /\ results[1].get_spent_calories = Ok(cal)
                   /\ \A a \in Actions :
                        get_spent_calories([self EXCEPT !.action = a])
                            = results[1].get_spent_calories
           /\ self = Swimming_init(720, 1, 80, 25, 40)
                => /\ Called(1, "get_mean_speed")
                        => results[1].get_mean_speed = Ok(ToR(1))
                   /\ Called(1, "get_spent_calories")
                        => results[1].get_spent_calories = Ok(ToR(336))

C6_Witness ==
    /\ objs[1] = Swimming_init(720, 1, 80, 25, 40)
    /\ Called(1, "get_mean_speed")
    /\ Called(1, "get_spent_calories")

\* C10: with action >= 0, weight >= 0, duration > 0, height > 0 and pool
\* length and count >= 0, the calories of SportsWalking and Swimming are never
\* negative, those of Running are negative exactly when weight > 0 and
\* 18 * speed < 20, and so a report with negative calories is a Running one.
C10_NegativeCaloriesOnlyRunning ==
    LET self == objs[1]
        c == results[1].get_spent_calories
        info == results[1].show_training_info
    IN  (/\ self.cls # "Training"
         /\ self.action >= 0 /\ self.weight >= 0 /\ self.duration > 0
         /\ self.cls = "SportsWalking" => self.height > 0
         /\ self.cls = "Swimming"
                => (self.length_pool >= 0 /\ self.count_pool >= 0))
        => /\ Called(1, "get_spent_calories")
                => /\ c.exc = "none"
                   /\ self.cls \in {"SportsWalking", "Swimming"}
                        => ~IsNeg(c.val)
                   /\ self.cls = "Running"
                        => (IsNeg(c.val)
                              <=> (/\ self.weight > 0
                                   /\ 18 * 65 * self.action
                                        < 20 * 100 * 1000 * self.duration))
           /\ Called(1, "show_training_info")
                => /\ info.exc = "none"
                   /\ IsNeg(info.val.calories) => self.cls = "Running"

C10_Witness ==
    /\ objs[1] = Training_init("Running", 0, 1, 75)
    /\ results[1].get_spent_calories = Ok(ToR(-90))
    /\ Called(1, "show_training_info")

----------------------------------------------------------------------------
\* C7: get_spent_calories on a base Training instance always raises
\* NotImplementedError naming the instance's class and returns nothing, so
\* show_training_info on it builds no InfoMessage; on Running, SportsWalking
\* and Swimming instances the override runs and that error never shows.
C7_BaseCaloriesUnimplemented ==
    \A i \in DOMAIN objs :
        /\ objs[i].cls = "Training"
              => /\ results[i].get_spent_calories
                      \in {NotCalled, Raise("NotImplementedError", "Training")}
                 /\ results[i].show_training_info
                      \in {NotCalled, Raise("NotImplementedError", "Training")}
        /\ objs[i].cls # "Training"
              => /\ results[i].get_spent_calories.exc
                      \in {"notcalled", "none"}
                 /\ results[i].show_training_info.exc
                      \in {"notcalled", "none"}

C7_Witness ==
    \E i, j \in DOMAIN objs :
        /\ objs[i].cls = "Training"
        /\ results[i].show_training_info
              = Raise("NotImplementedError", "Training")
        /\ objs[j].cls = "Swimming"
        /\ results[j].show_training_info.exc = "none"

\* what a call of method m on instance i returns in the current state
CallValue(i, m) ==
    CASE m = "get_distance" -> get_distance(objs[i])
      [] m = "get_mean_speed" -> get_mean_speed(objs[i])
      [] m = "get_spent_calories" -> get_spent_calories(objs[i])
      [] m = "show_training_info" -> show_training_info(objs[i])

\* C9: no constructor or method call changes the fields of an existing
\* instance or a class constant; no call changes what a call on any instance
\* returns; and a repeated call returns what the earlier call returned.
C9_CallsChangeNothing ==
    [][/\ classAttrs' = classAttrs
       /\ \A i \in DOMAIN objs :
            /\ i \in DOMAIN objs'
            /\ objs'[i] = objs[i]
            /\ \A m \in Methods :
                 /\ CallValue(i, m)' = CallValue(i, m)
                 /\ results[i][m] # NotCalled
                      => results'[i][m] = results[i][m]]_vars

C9_Witness ==
    /\ Len(objs) = 2
    /\ objs[1].cls # objs[2].cls
    /\ Called(1, "get_spent_calories")
    /\ Called(2, "show_training_info")

====
